---- MODULE Spec2Model ----
(***************************************************************************)
(* librarian: archive extraction (extract_archive / extract_zip /          *)
(* extract_tar / extract_tar_gz), dynamic library installation             *)
(* (install_dylibs) and the download cache (download_or_find_file).        *)
(*                                                                         *)
(* Paths are sequences of path components relative to the working          *)
(* directory; file names that are matched against suffixes are sequences   *)
(* of one-character strings.  The file system is a set of directories and  *)
(* a function from the paths of regular files to their contents.           *)
(***************************************************************************)
EXTENDS Naturals, Sequences, FiniteSets

VARIABLES
    dirs,       \* directories that exist
    files,      \* regular files: path |-> content
    pc,         \* position of the running call
    archive,    \* extract_archive: file name of `archive` (<<>> = no file name)
    fmt,        \* the container format the archive's bytes really are
    targetArg,  \* extract_archive: `target: Option<&Path>` (<<>> = None)
    envRead,    \* what env::var("OUT_DIR") returned, if it was called
    target,     \* the resolved target root
    reader,     \* the reader extract_archive selected
    invoked,    \* readers entered during this call, in order
    opened,     \* the archive file has been opened by this call
    entries,    \* the zip entry sequence read_zip produced
    idx,        \* index of the entry being processed
    result,     \* "none" | "ok" | "err" | "panic"
    dirs0,      \* directories at the start of the call
    files0,     \* regular files at the start of the call
    prev,       \* <<entries of the preceding successful run>> when the call repeats it
    faulted,    \* an I/O error of the environment hit this call
    \* install_dylibs
    ifs,        \* directory |-> (file name |-> [kind, data])
    ipc,        \* position of the running install_dylibs call
    ifilter,    \* `filter: Option<DyLibNameFilter>` (<<>> = None)
    itargetEnv, \* value of the TARGET environment variable (<<>> = unset)
    itargetArg, \* `target_dir: Option<&Path>` (<<>> = None)
    iext,       \* the local `extension`
    itdir,      \* the local `target_dir` once resolved
    itodo,      \* entries read_dir has still to yield
    iresult,    \* "none" | "ok" | "err" | "panic"
    ifs0,       \* ifs at the start of the call
    icopied,    \* names this call has copied with fs::copy
    \* download_or_find_file
    dfiles,     \* the download directory: file name |-> content
    dpc,        \* position of the running download_or_find_file call
    durl,       \* the `url` argument
    doutArg,    \* `out_dir: Option<&Path>` (<<>> = None)
    dpath,      \* the local `path` (its file name under the directory)
    dbody,      \* the bytes of the response body received
    dresult,    \* "none" | "ok" | "err" | "panic"
    dreturned,  \* the path returned with Ok
    dhttp,      \* HTTP requests made by this call
    dfiles0,    \* dfiles at the start of the call
    dmade       \* file name |-> the url whose download created the file

extractVars == <<dirs, files, pc, archive, fmt, targetArg, envRead, target, reader,
                 invoked, opened, entries, idx, result, dirs0, files0, prev, faulted>>

installVars == <<ifs, ipc, ifilter, itargetEnv, itargetArg, iext, itdir, itodo,
                 iresult, ifs0, icopied>>

downloadVars == <<dfiles, dpc, durl, doutArg, dpath, dbody, dresult, dreturned,
                  dhttp, dfiles0, dmade>>

vars == <<extractVars, installVars, downloadVars>>

-----------------------------------------------------------------------------
(* Bounds and input sets *)

MaxEntries == 2

Target == <<"out">>

EntryPaths == { <<"a">>, <<"a", "b">>, <<"c">> }

Contents == { <<1>>, <<1, 2>> }

Entries ==
    {[kind |-> "File", name |-> p, data |-> c] : p \in EntryPaths, c \in Contents}
    \cup {[kind |-> "Directory", name |-> p, data |-> <<>>] : p \in EntryPaths}
    \cup {[kind |-> "Other", name |-> p, data |-> <<>>] : p \in EntryPaths}

Archives == UNION {[1..n -> Entries] : n \in 0..MaxEntries}

Formats == {"zip", "tgz", "tar", "junk"}

ArchiveNames ==
    { <<"a", ".", "z", "i", "p">>,
      <<"a", ".", "t", "a", "r", ".", "g", "z">>,
      <<"a", ".", "t", "g", "z">>,
      <<"a", ".", "t", "a", "r">>,
      <<"a", ".", "Z", "I", "P">>,
      <<"a", ".", "r", "a", "r">>,
      <<"z", "i", "p">>,
      <<"a", ".", "z", "i", "p", ".", "g", "z">> }

\* `archive.as_ref().file_name()`: None for a path such as `..`
ArchiveArgs == {<<>>} \cup {<<n>> : n \in ArchiveNames}

TargetArgs == {<<>>, <<Target>>}

OutDirValues == {<<>>, <<Target>>}

-----------------------------------------------------------------------------
(* std::path and std::fs as the code uses them *)

Parent(p) == SubSeq(p, 1, Len(p) - 1)

Join(base, rel) == base \o rel

Prefixes(p) == {SubSeq(p, 1, k) : k \in 1..Len(p)}

Ancestors(p) == {SubSeq(p, 1, k) : k \in 1..(Len(p) - 1)}

EndsWith(s, suf) ==
    /\ Len(suf) <= Len(s)
    /\ SubSeq(s, Len(s) - Len(suf) + 1, Len(s)) = suf

WriteFile(fs, p, c) == [q \in (DOMAIN fs) \cup {p} |-> IF q = p THEN c ELSE fs[q]]

\* fs::create_dir_all(p): every missing directory of the chain is created;
\* it fails when a component of the chain is a regular file.
CreateDirAllOnlyLeaf(p, ds, fs) ==
    IF \E q \in Prefixes(p) : q \in DOMAIN fs
    THEN [ok |-> FALSE, dirs |-> ds]
    ELSE [ok |-> TRUE, dirs |-> ds \cup (IF p = <<>> THEN {} ELSE {p})]

CreateDirAll(p, ds, fs) ==
    IF \E q \in Prefixes(p) : q \in DOMAIN fs
    THEN [ok |-> FALSE, dirs |-> ds]
    ELSE [ok |-> TRUE, dirs |-> ds \cup Prefixes(p)]

\* what a create_dir_all stopped by an I/O error may leave behind
PartialDirs(p, ds, fs) ==
    IF \E q \in Prefixes(p) : q \in DOMAIN fs
    THEN {ds}
    ELSE {ds \cup {q \in Prefixes(p) : Len(q) <= k} : k \in 0..(Len(p) - 1)}

\* fs::File::create(p): creates or truncates; fails on a directory or when
\* the parent directory is missing.
FileCreateKeepsContent(p, ds, fs) ==
    IF p \in ds \/ (Parent(p) # <<>> /\ Parent(p) \notin ds)
    THEN [ok |-> FALSE, files |-> fs]
    ELSE [ok |-> TRUE, files |-> IF p \in DOMAIN fs THEN fs ELSE WriteFile(fs, p, <<>>)]

FileCreate(p, ds, fs) ==
    IF p \in ds \/ (Parent(p) # <<>> /\ Parent(p) \notin ds)
    THEN [ok |-> FALSE, files |-> fs]
    ELSE [ok |-> TRUE, files |-> WriteFile(fs, p, <<>>)]

ProperPrefixesOf(c) == {SubSeq(c, 1, k) : k \in 0..(Len(c) - 1)}

\* io::copy(&mut reader, &mut writer): the entry's bytes are written at the
\* writer's position, after what the file holds
IoCopyNothing(fs, p, data) == fs

IoCopy(fs, p, data) == WriteFile(fs, p, fs[p] \o data)

-----------------------------------------------------------------------------
(* extract_archive: target resolution and format dispatch *)

\* lib.rs: `if let Some(target) = target { .. } else { env::var("OUT_DIR").expect(..) }`
\* <<>> stands for the panic of expect()
ResolveTargetDefaulting(arg, env) ==
    IF arg # <<>> THEN arg ELSE IF env # <<>> THEN env ELSE <<Target>>

ResolveTargetOf(arg, env) ==
    IF arg # <<>> THEN arg ELSE env

\* lib.rs: the chain of ends_with tests; "none" reaches the panic!
SelectReaderIgnoreCase(name) ==
    IF EndsWith(name, <<".", "z", "i", "p">>) \/ EndsWith(name, <<".", "Z", "I", "P">>)
    THEN "zip"
    ELSE IF \/ EndsWith(name, <<".", "t", "a", "r", ".", "g", "z">>)
            \/ EndsWith(name, <<".", "t", "g", "z">>)
    THEN "tgz"
    ELSE IF EndsWith(name, <<".", "t", "a", "r">>)
    THEN "tar"
    ELSE "none"

SelectReader(name) ==
    IF EndsWith(name, <<".", "z", "i", "p">>)
    THEN "zip"
    ELSE IF \/ EndsWith(name, <<".", "t", "a", "r", ".", "g", "z">>)
            \/ EndsWith(name, <<".", "t", "g", "z">>)
    THEN "tgz"
    ELSE IF EndsWith(name, <<".", "t", "a", "r">>)
    THEN "tar"
    ELSE "none"

Finish(r) ==
    /\ pc' = "done"
    /\ result' = r

\* a call of extract_archive(archive, target)
CallExtract ==
    /\ pc = "idle"
    /\ pc' = "resolve"
    /\ archive' \in ArchiveArgs
    /\ fmt' \in Formats
    /\ targetArg' \in TargetArgs
    /\ envRead' = "unread"
    /\ target' = <<>>
    /\ reader' = "none"
    /\ invoked' = <<>>
    /\ opened' = FALSE
    /\ entries' = <<>>
    /\ idx' = 0
    /\ result' = "none"
    /\ dirs0' = dirs
    /\ files0' = files
    /\ prev' = <<>>
    /\ faulted' = FALSE
    /\ UNCHANGED <<dirs, files>>
    /\ UNCHANGED <<installVars, downloadVars>>

\* the caller repeats a successful zip extraction: same arguments, an archive
\* with the same entry paths and kinds
CallExtractAgain ==
    /\ pc = "done"
    /\ result = "ok"
    /\ reader = "zip"
    /\ pc' = "resolve"
    /\ envRead' = "unread"
    /\ target' = <<>>
    /\ reader' = "none"
    /\ invoked' = <<>>
    /\ opened' = FALSE
    /\ entries' = <<>>
    /\ idx' = 0
    /\ result' = "none"
    /\ dirs0' = dirs
    /\ files0' = files
    /\ prev' = <<entries>>
    /\ faulted' = FALSE
    /\ UNCHANGED <<dirs, files, archive, fmt, targetArg>>
    /\ UNCHANGED <<installVars, downloadVars>>

ResolveTarget ==
    /\ pc = "resolve"
    /\ \E env \in OutDirValues :
         LET t == ResolveTargetOf(targetArg, env) IN
         /\ envRead' = IF targetArg # <<>> THEN "unread"
                       ELSE IF env = <<>> THEN "missing" ELSE "set"
         /\ (targetArg # <<>>) => (env = <<>>)
         /\ IF t = <<>>
            THEN /\ Finish("panic")
                 /\ target' = target
            ELSE /\ pc' = "dispatch"
                 /\ target' = t[1]
                 /\ result' = result
    /\ UNCHANGED <<dirs, files, archive, fmt, targetArg, reader, invoked, opened,
                   entries, idx, dirs0, files0, prev, faulted>>
    /\ UNCHANGED <<installVars, downloadVars>>

Dispatch ==
    /\ pc = "dispatch"
    /\ IF archive = <<>>
       THEN /\ Finish("panic")
            /\ reader' = reader
       ELSE LET r == SelectReader(archive[1]) IN
            /\ reader' = r
            /\ IF r = "none"
               THEN Finish("panic")
               ELSE /\ pc' = IF r = "zip" THEN "zip_open" ELSE "tar_unpack"
                    /\ result' = result
    /\ UNCHANGED <<dirs, files, archive, fmt, targetArg, envRead, target, invoked,
                   opened, entries, idx, dirs0, files0, prev, faulted>>
    /\ UNCHANGED <<installVars, downloadVars>>

-----------------------------------------------------------------------------
(* extract_zip *)

SameShape(es, fs) ==
    /\ Len(es) = Len(fs)
    /\ \A i \in 1..Len(es) : es[i].kind = fs[i].kind /\ es[i].name = fs[i].name

\* what the archive file on disk can hold when the call reads its index
ReadableArchives ==
    IF prev = <<>> THEN Archives ELSE {es \in Archives : SameShape(es, prev[1])}

\* `match entry.contents()`: which arm handles an entry of this kind
EntryArmAllFiles(kind) ==
    IF kind = "Directory" THEN "Directory" ELSE "File"

EntryArm(kind) ==
    IF kind = "Directory" THEN "Directory"
    ELSE IF kind = "File" THEN "File"
    ELSE "_"

\* the directory the Directory arm hands to create_dir_all
DirectoryArmCreatesSelf(path) == path

DirectoryArmCreates(path) == Parent(path)

Dest == Join(target, entries[idx].name)

zipFrame == <<archive, fmt, targetArg, envRead, target, reader, dirs0, files0, prev>>

\* the `?` after an fs or io call inside the entry loop: the error is returned
\* at once, from extract_zip and from extract_archive
ZipFailTriesAgain ==
    /\ pc' = "zip_entry"
    /\ result' = result

ZipFail == Finish("err")

\* zip.rs: fs::File::open(archive)?; zipfile.read_zip()?
ZipOpen ==
    /\ pc = "zip_open"
    /\ invoked' = Append(invoked, "zip")
    /\ \/ /\ opened' = FALSE          \* the archive file cannot be opened
          /\ faulted' = TRUE
          /\ Finish("err")
          /\ UNCHANGED <<entries, idx>>
       \/ /\ opened' = TRUE
          /\ fmt # "zip"              \* read_zip: rc_zip::Error
          /\ Finish("err")
          /\ UNCHANGED <<entries, idx, faulted>>
       \/ /\ opened' = TRUE
          /\ fmt = "zip"
          /\ entries' \in ReadableArchives
          /\ idx' = 1
          /\ pc' = "zip_entry"
          /\ UNCHANGED <<result, faulted>>
    /\ UNCHANGED <<dirs, files>>
    /\ UNCHANGED zipFrame
    /\ UNCHANGED <<installVars, downloadVars>>

\* EntryContents::Directory(c): create_dir_all(path.parent().unwrap())?
ZipDirectory ==
    /\ pc = "zip_entry"
    /\ idx <= Len(entries)
    /\ EntryArm(entries[idx].kind) = "Directory"
    /\ LET r == CreateDirAll(DirectoryArmCreates(Dest), dirs, files) IN
       \/ /\ r.ok
          /\ dirs' = r.dirs
          /\ idx' = idx + 1
          /\ UNCHANGED <<pc, result, faulted>>
       \/ /\ ~r.ok
          /\ dirs' = r.dirs
          /\ ZipFail
          /\ UNCHANGED <<idx, faulted>>
       \/ /\ dirs' \in PartialDirs(DirectoryArmCreates(Dest), dirs, files)
          /\ r.ok
          /\ dirs' # r.dirs
          /\ faulted' = TRUE
          /\ ZipFail
          /\ UNCHANGED idx
    /\ UNCHANGED <<files, invoked, opened, entries>>
    /\ UNCHANGED zipFrame
    /\ UNCHANGED <<installVars, downloadVars>>

\* EntryContents::File(c): create_dir_all(path.parent().unwrap())?
ZipFileMkdirs ==
    /\ pc = "zip_entry"
    /\ idx <= Len(entries)
    /\ EntryArm(entries[idx].kind) = "File"
    /\ LET r == CreateDirAll(Parent(Dest), dirs, files) IN
       \/ /\ r.ok
          /\ dirs' = r.dirs
          /\ pc' = "zip_create"
          /\ UNCHANGED <<result, faulted>>
       \/ /\ ~r.ok
          /\ dirs' = r.dirs
          /\ ZipFail
          /\ UNCHANGED faulted
       \/ /\ dirs' \in PartialDirs(Parent(Dest), dirs, files)
          /\ r.ok
          /\ dirs' # r.dirs
          /\ faulted' = TRUE
          /\ ZipFail
    /\ UNCHANGED <<files, invoked, opened, entries, idx>>
    /\ UNCHANGED zipFrame
    /\ UNCHANGED <<installVars, downloadVars>>

\* let mut writer = fs::File::create(path)?
ZipFileCreate ==
    /\ pc = "zip_create"
    /\ LET r == FileCreate(Dest, dirs, files) IN
       \/ /\ r.ok
          /\ files' = r.files
          /\ pc' = "zip_copy"
          /\ UNCHANGED <<result, faulted>>
       \/ /\ ~r.ok
          /\ files' = files
          /\ ZipFail
          /\ UNCHANGED faulted
       \/ /\ r.ok                     \* an I/O error of the environment
          /\ files' = files
          /\ faulted' = TRUE
          /\ ZipFail
    /\ UNCHANGED <<dirs, invoked, opened, entries, idx>>
    /\ UNCHANGED zipFrame
    /\ UNCHANGED <<installVars, downloadVars>>

\* io::copy(&mut reader, &mut writer)?
ZipCopy ==
    /\ pc = "zip_copy"
    /\ \/ /\ files' = IoCopy(files, Dest, entries[idx].data)
          /\ idx' = idx + 1
          /\ pc' = "zip_entry"
          /\ UNCHANGED <<result, faulted>>
       \/ \E part \in ProperPrefixesOf(entries[idx].data) :
          /\ files' = IoCopy(files, Dest, part)
          /\ faulted' = TRUE
          /\ ZipFail
          /\ UNCHANGED idx
    /\ UNCHANGED <<dirs, invoked, opened, entries>>
    /\ UNCHANGED zipFrame
    /\ UNCHANGED <<installVars, downloadVars>>

\* `_ => {}`: symlinks are not supported
ZipOther ==
    /\ pc = "zip_entry"
    /\ idx <= Len(entries)
    /\ EntryArm(entries[idx].kind) = "_"
    /\ idx' = idx + 1
    /\ UNCHANGED <<dirs, files, pc, invoked, opened, entries, result, faulted>>
    /\ UNCHANGED zipFrame
    /\ UNCHANGED <<installVars, downloadVars>>

\* the loop is over: extract_zip returns Ok(()), extract_archive Ok(target)
ZipReturn ==
    /\ pc = "zip_entry"
    /\ idx > Len(entries)
    /\ Finish("ok")
    /\ UNCHANGED <<dirs, files, invoked, opened, entries, idx, faulted>>
    /\ UNCHANGED zipFrame
    /\ UNCHANGED <<installVars, downloadVars>>

-----------------------------------------------------------------------------
(* extract_tar_gz / extract_tar: tar::Archive::unpack does the whole tree *)

RECURSIVE Unpack(_, _, _, _)
\* archive.unpack(target): directories are created with their ancestors,
\* regular files are written with their parent chain; the first failure stops it
Unpack(es, i, ds, fs) ==
    IF i > Len(es) THEN [ok |-> TRUE, dirs |-> ds, files |-> fs]
    ELSE LET e == es[i]
             d == Join(target, e.name)
         IN  IF e.kind = "Directory"
             THEN LET r == CreateDirAll(d, ds, fs) IN
                  IF r.ok THEN Unpack(es, i + 1, r.dirs, fs)
                  ELSE [ok |-> FALSE, dirs |-> ds, files |-> fs]
             ELSE IF e.kind = "File"
             THEN LET r == CreateDirAll(Parent(d), ds, fs)
                      c == FileCreate(d, r.dirs, fs)
                  IN  IF r.ok /\ c.ok
                      THEN Unpack(es, i + 1, r.dirs, WriteFile(c.files, d, e.data))
                      ELSE [ok |-> FALSE, dirs |-> r.dirs, files |-> fs]
             ELSE Unpack(es, i + 1, ds, fs)

\* tgz.rs: fs::File::open(archive)?; archive.unpack(target)?
TarUnpack ==
    /\ pc = "tar_unpack"
    /\ invoked' = Append(invoked, reader)
    /\ \/ /\ opened' = FALSE          \* the archive file cannot be opened
          /\ faulted' = TRUE
          /\ Finish("err")
          /\ UNCHANGED <<dirs, files>>
       \/ /\ opened' = TRUE
          /\ fmt # reader             \* not a tar stream / not gzip
          /\ Finish("err")
          /\ UNCHANGED <<dirs, files, faulted>>
       \/ /\ opened' = TRUE
          /\ fmt = reader
          /\ \E es \in Archives :
               LET r == Unpack(es, 1, dirs, files) IN
               /\ dirs' = r.dirs
               /\ files' = r.files
               /\ Finish(IF r.ok THEN "ok" ELSE "err")
          /\ UNCHANGED faulted
    /\ UNCHANGED <<entries, idx>>
    /\ UNCHANGED zipFrame
    /\ UNCHANGED <<installVars, downloadVars>>

\* the caller goes on (after a panic: the build script is run again)
Return ==
    /\ pc = "done"
    /\ pc' = "idle"
    /\ archive' = <<>>
    /\ fmt' = "junk"
    /\ targetArg' = <<>>
    /\ envRead' = "unread"
    /\ target' = <<>>
    /\ reader' = "none"
    /\ invoked' = <<>>
    /\ opened' = FALSE
    /\ entries' = <<>>
    /\ idx' = 0
    /\ result' = "none"
    /\ dirs0' = dirs
    /\ files0' = files
    /\ prev' = <<>>
    /\ faulted' = FALSE
    /\ UNCHANGED <<dirs, files>>
    /\ UNCHANGED <<installVars, downloadVars>>

-----------------------------------------------------------------------------

-----------------------------------------------------------------------------
(* install_dylibs *)

MaxSrc == 2

SrcDir == "from"

DstDir == "to"

ExeDir == "exe"

\* file names a source directory may hold
SrcFileNames ==
    { <<"S", ".", "d", "l", "l">>,
      <<"l", "i", "b", "S", ".", "d", "l", "l">>,
      <<"S", "d", "l", "l">>,
      <<"l", "i", "b", "S", "d", "l", "l">>,
      <<"S", ".", "s", "o">>,
      <<"T", ".", "d", "l", "l">>,
      <<"S">> }

\* a sub-directory a source directory may hold
SrcDirNames == { <<"D", ".", "d", "l", "l">> }

SrcEntry(n) ==
    [kind |-> IF n \in SrcDirNames THEN "dir" ELSE "file", data |-> <<1>>]

SourceDirs ==
    {[n \in names |-> SrcEntry(n)] :
        names \in {ns \in SUBSET (SrcFileNames \cup SrcDirNames) : Cardinality(ns) <= MaxSrc}}

Filters ==
    { <<>>,
      <<[kind |-> "FileName", str |-> <<"S", ".", "d", "l", "l">>]>>,
      <<[kind |-> "FileName", str |-> <<"S">>]>>,
      <<[kind |-> "Extension", str |-> <<"d", "l", "l">>]>>,
      <<[kind |-> "Extension", str |-> <<"s", "o">>]>>,
      <<[kind |-> "LibName", str |-> <<"S">>]>> }

TargetEnvValues ==
    { <<>>,
      <<<<"i", "6", "8", "6", "-", "p", "c", "-", "w", "i", "n", "d", "o", "w", "s">>>>,
      <<<<"a", "r", "m", "-", "l", "i", "n", "u", "x">>>> }

TargetDirArgs == {<<>>, <<DstDir>>}

Contains(s, sub) ==
    \E i \in 1..(Len(s) - Len(sub) + 1) : SubSeq(s, i, i + Len(sub) - 1) = sub

\* get_dylib_extension(): <<>> stands for Err(VarError)
GetDylibExtensionDotted(env) ==
    IF env = <<>> THEN <<>>
    ELSE IF Contains(env[1], <<"p", "c", "-", "w", "i", "n", "d", "o", "w", "s">>)
    THEN << <<".">> \o <<"d", "l", "l">> >>
    ELSE << <<".">> \o <<"s", "o">> >>

GetDylibExtension(env) ==
    IF env = <<>> THEN <<>>
    ELSE IF Contains(env[1], <<"p", "c", "-", "w", "i", "n", "d", "o", "w", "s">>)
    THEN << <<"d", "l", "l">> >>
    ELSE << <<"s", "o">> >>

\* whether `let extension = ...` reaches get_dylib_extension()
ReadsTargetEnv(filter) ==
    ~(filter # <<>> /\ filter[1].kind \in {"Extension", "FileName"})

\* `let extension = ...`: <<>> stands for the panic of expect()
ExtensionOf(filter, env) ==
    IF filter # <<>> /\ filter[1].kind = "Extension"
    THEN << <<".">> \o filter[1].str >>
    ELSE IF filter # <<>> /\ filter[1].kind = "FileName"
    THEN << <<>> >>
    ELSE GetDylibExtension(env)

\* `let matches = ...`
MatchesSuffixOnly(filter, extension, file_name) ==
    IF filter # <<>> /\ filter[1].kind = "FileName"
    THEN EndsWith(file_name, filter[1].str)
    ELSE IF filter # <<>> /\ filter[1].kind = "Extension"
    THEN EndsWith(file_name, extension)
    ELSE IF filter # <<>> /\ filter[1].kind = "LibName"
    THEN \/ file_name = filter[1].str \o extension
         \/ file_name = <<"l", "i", "b">> \o filter[1].str \o extension
    ELSE EndsWith(file_name, extension)

Matches(filter, extension, file_name) ==
    IF filter # <<>> /\ filter[1].kind = "FileName"
    THEN filter[1].str = file_name
    ELSE IF filter # <<>> /\ filter[1].kind = "Extension"
    THEN EndsWith(file_name, extension)
    ELSE IF filter # <<>> /\ filter[1].kind = "LibName"
    THEN \/ file_name = filter[1].str \o extension
         \/ file_name = <<"l", "i", "b">> \o filter[1].str \o extension
    ELSE EndsWith(file_name, extension)

PutEntry(fs, d, n, e) ==
    [fs EXCEPT ![d] = [m \in (DOMAIN fs[d]) \cup {n} |-> IF m = n THEN e ELSE fs[d][m]]]

IFinish(r) ==
    /\ ipc' = "done"
    /\ iresult' = r

\* a call of install_dylibs(from, filter, target_dir)
CallInstall ==
    /\ ipc = "idle"
    /\ ipc' = "extension"
    /\ ifilter' \in Filters
    /\ itargetEnv' = <<>>
    /\ itargetArg' \in TargetDirArgs
    /\ iext' = <<>>
    /\ itdir' = ""
    /\ itodo' = {}
    /\ iresult' = "none"
    /\ ifs0' = ifs
    /\ icopied' = {}
    /\ UNCHANGED ifs
    /\ UNCHANGED <<extractVars, downloadVars>>

\* lib.rs: `let extension = ...`
InstallExtension ==
    /\ ipc = "extension"
    /\ \E env \in TargetEnvValues :
         LET e == ExtensionOf(ifilter, env) IN
         \* TARGET is read only when the filter names no extension itself
         /\ itargetEnv' = IF ReadsTargetEnv(ifilter) THEN env ELSE <<>>
         /\ ReadsTargetEnv(ifilter) \/ env = <<>>
         /\ IF e = <<>>
            THEN /\ IFinish("panic")
                 /\ iext' = iext
            ELSE /\ ipc' = "target_dir"
                 /\ iext' = e[1]
                 /\ iresult' = iresult
    /\ UNCHANGED <<ifs, ifilter, itargetArg, itdir, itodo, ifs0, icopied>>
    /\ UNCHANGED <<extractVars, downloadVars>>

\* lib.rs: `let target_dir = ...`; get_target_dir()? may fail; fs::read_dir(from)?
InstallTargetDir ==
    /\ ipc = "target_dir"
    /\ \/ /\ itargetArg # <<>>
          /\ itdir' = itargetArg[1]
          /\ itodo' = DOMAIN ifs[SrcDir]
          /\ ipc' = "entries"
          /\ iresult' = iresult
       \/ /\ itargetArg = <<>>
          /\ itdir' = ExeDir
          /\ itodo' = DOMAIN ifs[SrcDir]
          /\ ipc' = "entries"
          /\ iresult' = iresult
       \/ /\ IFinish("err")          \* get_target_dir or read_dir fails
          /\ UNCHANGED <<itdir, itodo>>
    /\ UNCHANGED <<ifs, ifilter, itargetEnv, itargetArg, iext, ifs0, icopied>>
    /\ UNCHANGED <<extractVars, downloadVars>>

\* one iteration of `for entry in fs::read_dir(from)?`
InstallEntry ==
    /\ ipc = "entries"
    /\ \E file_name \in itodo :
         /\ itodo' = itodo \ {file_name}
         /\ IF Matches(ifilter, iext, file_name)
            THEN \/ /\ ifs[SrcDir][file_name].kind = "file"
                    /\ ifs' = PutEntry(ifs, itdir, file_name, ifs[SrcDir][file_name])
                    /\ icopied' = icopied \cup {file_name}
                    /\ UNCHANGED <<ipc, iresult>>
                 \/ /\ ifs[SrcDir][file_name].kind # "file"   \* fs::copy of a directory
                    /\ ifs' = ifs
                    /\ icopied' = icopied
                    /\ IFinish("err")
                 \/ /\ ifs[SrcDir][file_name].kind = "file"   \* fs::copy fails
                    /\ ifs' = ifs
                    /\ icopied' = icopied
                    /\ IFinish("err")
            ELSE UNCHANGED <<ifs, ipc, iresult, icopied>>
    /\ UNCHANGED <<ifilter, itargetEnv, itargetArg, iext, itdir, ifs0>>
    /\ UNCHANGED <<extractVars, downloadVars>>

\* the loop is over: Ok(())
InstallReturn ==
    /\ ipc = "entries"
    /\ itodo = {}
    /\ IFinish("ok")
    /\ UNCHANGED <<ifs, ifilter, itargetEnv, itargetArg, iext, itdir, itodo, ifs0, icopied>>
    /\ UNCHANGED <<extractVars, downloadVars>>

\* the caller goes on
InstallDone ==
    /\ ipc = "done"
    /\ ipc' = "idle"
    /\ ifilter' = <<>>
    /\ itargetEnv' = <<>>
    /\ itargetArg' = <<>>
    /\ iext' = <<>>
    /\ itdir' = ""
    /\ itodo' = {}
    /\ iresult' = "none"
    /\ ifs0' = ifs
    /\ icopied' = {}
    /\ UNCHANGED ifs
    /\ UNCHANGED <<extractVars, downloadVars>>

InstallIdle ==
    /\ ipc = "idle"
    /\ ifilter = <<>>
    /\ itargetEnv = <<>>
    /\ itargetArg = <<>>
    /\ iext = <<>>
    /\ itdir = ""
    /\ itodo = {}
    /\ iresult = "none"
    /\ ifs0 = ifs
    /\ icopied = {}

EmptyDirs == [d \in {SrcDir, DstDir, ExeDir} |-> <<>>]

InitInstall ==
    /\ \E src \in SourceDirs : ifs = [EmptyDirs EXCEPT ![SrcDir] = src]
    /\ InstallIdle

NextInstall ==
    \/ CallInstall
    \/ InstallExtension
    \/ InstallTargetDir
    \/ InstallEntry
    \/ InstallReturn
    \/ InstallDone

-----------------------------------------------------------------------------
(* download_or_find_file *)

DownloadDir == "dl"

\* a url string as Url::parse sees it: whether it parses, its host, and its
\* path segments (<<>> when the url cannot be a base, else <<segments>>)
Urls ==
    {[parse |-> "err", host |-> "down", segs |-> <<>>]}
    \cup {[parse |-> "ok", host |-> h, segs |-> <<>>] : h \in {"up", "down"}}
    \cup {[parse |-> "ok", host |-> h, segs |-> <<ss>>] :
            h \in {"up", "down"},
            ss \in { <<"f">>, <<"x", "f">>, <<"g">>, <<"x", "">>, <<"">> }}

OutDirArgs == {<<>>, <<DownloadDir>>}

OutDirEnv == {<<>>, <<DownloadDir>>}

\* the body the server sends for a url
Body(u) == IF Len(u.segs[1]) = 1 THEN <<1, 2>> ELSE <<3>>

\* url_fname(url): the last path segment unless it is empty
UrlFnameFirst(u) ==
    IF u.segs = <<>> THEN <<>>
    ELSE IF u.segs[1][1] = "" THEN <<>>
    ELSE <<u.segs[1][1]>>

UrlFname(u) ==
    IF u.segs = <<>> THEN <<>>
    ELSE LET last == u.segs[1][Len(u.segs[1])] IN
         IF last = "" THEN <<>> ELSE <<last>>

DFinish(r) ==
    /\ dpc' = "done"
    /\ dresult' = r

\* a call of download_or_find_file(url, out_dir)
CallDownload ==
    /\ dpc = "idle"
    /\ dpc' = "parse"
    /\ durl' \in Urls
    /\ doutArg' \in OutDirArgs
    /\ dpath' = ""
    /\ dbody' = <<>>
    /\ dresult' = "none"
    /\ dreturned' = <<>>
    /\ dhttp' = 0
    /\ dfiles0' = dfiles
    /\ UNCHANGED dfiles
    /\ UNCHANGED dmade
    /\ UNCHANGED <<extractVars, installVars>>

\* Url::parse(url)?; url_fname(&url_parsed); Err(NoFileNameError)
DownloadParse ==
    /\ dpc = "parse"
    /\ IF durl.parse = "err"
       THEN /\ DFinish("err")
            /\ dpath' = dpath
       ELSE LET fname == UrlFname(durl) IN
            IF fname = <<>>
            THEN /\ DFinish("err")
                 /\ dpath' = dpath
            ELSE /\ dpc' = "out_dir"
                 /\ dpath' = fname[1]
                 /\ dresult' = dresult
    /\ UNCHANGED <<dfiles, durl, doutArg, dbody, dreturned, dhttp, dfiles0>>
    /\ UNCHANGED dmade
    /\ UNCHANGED <<extractVars, installVars>>

\* out_dir or env::var("OUT_DIR").expect(..); path.exists()
DownloadFind ==
    /\ dpc = "out_dir"
    /\ \E env \in OutDirEnv :
         /\ (doutArg # <<>>) => (env = <<>>)
         /\ IF doutArg = <<>> /\ env = <<>>
            THEN /\ DFinish("panic")
                 /\ dreturned' = dreturned
            ELSE IF dpath \in DOMAIN dfiles
            THEN /\ DFinish("ok")
                 /\ dreturned' = <<DownloadDir, dpath>>
            ELSE /\ dpc' = "get"
                 /\ UNCHANGED <<dresult, dreturned>>
    /\ UNCHANGED <<dfiles, durl, doutArg, dpath, dbody, dhttp, dfiles0>>
    /\ UNCHANGED dmade
    /\ UNCHANGED <<extractVars, installVars>>

\* reqwest::blocking::get(url)?
DownloadGet ==
    /\ dpc = "get"
    /\ dhttp' = dhttp + 1
    /\ \/ /\ durl.host = "up"
          /\ dpc' = "create"
          /\ dresult' = dresult
       \/ DFinish("err")             \* the request fails
    /\ UNCHANGED <<dfiles, durl, doutArg, dpath, dbody, dreturned, dfiles0>>
    /\ UNCHANGED dmade
    /\ UNCHANGED <<extractVars, installVars>>

\* fs::File::create(path.clone())?
DownloadCreate ==
    /\ dpc = "create"
    /\ \/ /\ dfiles' = WriteFile(dfiles, dpath, <<>>)
          /\ dmade' = WriteFile(dmade, dpath, durl)
          /\ dpc' = "bytes"
          /\ dresult' = dresult
       \/ /\ dfiles' = dfiles
          /\ dmade' = dmade
          /\ DFinish("err")
    /\ UNCHANGED <<durl, doutArg, dpath, dbody, dreturned, dhttp, dfiles0>>
    /\ UNCHANGED <<extractVars, installVars>>

\* response.bytes()?
DownloadBytes ==
    /\ dpc = "bytes"
    /\ \/ /\ dbody' = Body(durl)
          /\ dpc' = "copy"
          /\ dresult' = dresult
       \/ /\ dbody' = dbody          \* the connection breaks while the body is read
          /\ DFinish("err")
    /\ UNCHANGED <<dfiles, durl, doutArg, dpath, dreturned, dhttp, dfiles0>>
    /\ UNCHANGED dmade
    /\ UNCHANGED <<extractVars, installVars>>

\* io::copy(&mut bytes, &mut dest)?; Ok(path)
DownloadCopy ==
    /\ dpc = "copy"
    /\ \/ /\ dfiles' = IoCopy(dfiles, dpath, dbody)
          /\ DFinish("ok")
          /\ dreturned' = <<DownloadDir, dpath>>
       \/ \E part \in ProperPrefixesOf(dbody) :
          /\ dfiles' = IoCopy(dfiles, dpath, part)
          /\ DFinish("err")
          /\ dreturned' = dreturned
    /\ UNCHANGED <<durl, doutArg, dpath, dbody, dhttp, dfiles0>>
    /\ UNCHANGED dmade
    /\ UNCHANGED <<extractVars, installVars>>

\* the caller goes on
DownloadDone ==
    /\ dpc = "done"
    /\ dpc' = "idle"
    /\ durl' = [parse |-> "err", host |-> "down", segs |-> <<>>]
    /\ doutArg' = <<>>
    /\ dpath' = ""
    /\ dbody' = <<>>
    /\ dresult' = "none"
    /\ dreturned' = <<>>
    /\ dhttp' = 0
    /\ dfiles0' = dfiles
    /\ UNCHANGED dfiles
    /\ UNCHANGED dmade
    /\ UNCHANGED <<extractVars, installVars>>

InitDownload ==
    /\ dfiles = <<>>
    /\ dpc = "idle"
    /\ durl = [parse |-> "err", host |-> "down", segs |-> <<>>]
    /\ doutArg = <<>>
    /\ dpath = ""
    /\ dbody = <<>>
    /\ dresult = "none"
    /\ dreturned = <<>>
    /\ dhttp = 0
    /\ dfiles0 = <<>>
    /\ dmade = <<>>

NextDownload ==
    \/ CallDownload
    \/ DownloadParse
    \/ DownloadFind
    \/ DownloadGet
    \/ DownloadCreate
    \/ DownloadBytes
    \/ DownloadCopy
    \/ DownloadDone

-----------------------------------------------------------------------------
(* Specifications *)

InitExtract ==
    /\ dirs = {}
    /\ files = <<>>
    /\ pc = "idle"
    /\ archive = <<>>
    /\ fmt = "junk"
    /\ targetArg = <<>>
    /\ envRead = "unread"
    /\ target = <<>>
    /\ reader = "none"
    /\ invoked = <<>>
    /\ opened = FALSE
    /\ entries = <<>>
    /\ idx = 0
    /\ result = "none"
    /\ dirs0 = {}
    /\ files0 = <<>>
    /\ prev = <<>>
    /\ faulted = FALSE

NextExtract ==
    \/ CallExtract
    \/ CallExtractAgain
    \/ ResolveTarget
    \/ Dispatch
    \/ ZipOpen
    \/ ZipDirectory
    \/ ZipFileMkdirs
    \/ ZipFileCreate
    \/ ZipCopy
    \/ ZipOther
    \/ ZipReturn
    \/ TarUnpack
    \/ Return


\* extraction; no install or download call is made
Init ==
    /\ InitExtract
    /\ ifs = EmptyDirs
    /\ InstallIdle
    /\ InitDownload

Next == NextExtract

Spec == Init /\ [][Next]_vars

\* installation from any source directory of at most MaxSrc entries
InitI ==
    /\ InitExtract
    /\ InitInstall
    /\ InitDownload

SpecInstall == InitI /\ [][NextInstall]_vars

\* the download cache
SpecDownload == Init /\ [][NextDownload]_vars


-----------------------------------------------------------------------------
(* Properties of extraction *)

ZipDone == pc = "done" /\ reader = "zip" /\ result = "ok"

EmptyTargetAtStart == files0 = <<>> /\ dirs0 \subseteq {Target}

DestOf(i) == Join(target, entries[i].name)

FileEntries == {i \in 1..Len(entries) : entries[i].kind = "File"}

\* the last RegularFile entry naming the same destination as entry i
LastFor(i) ==
    CHOOSE j \in FileEntries :
        /\ DestOf(j) = DestOf(i)
        /\ \A k \in FileEntries : DestOf(k) = DestOf(i) => k <= j

\* a name ends in suf: it is some prefix followed by suf
HasSuffix(name, suf) ==
    \E k \in 0..Len(name) : name = SubSeq(name, 1, k) \o suf

ExpectedReader(name) ==
    CASE HasSuffix(name, <<".", "z", "i", "p">>) -> "zip"
      [] HasSuffix(name, <<".", "t", "a", "r", ".", "g", "z">>) -> "tgz"
      [] HasSuffix(name, <<".", "t", "g", "z">>) -> "tgz"
      [] HasSuffix(name, <<".", "t", "a", "r">>) -> "tar"
      [] OTHER -> "none"

\* C1: in extract_zip, whenever a RegularFile entry's destination file is about
\* to be created or is being written, every ancestor directory of the
\* destination (the target root included) exists, whatever the entry order.
C1_AncestorsExistAtWrite ==
    pc \in {"zip_create", "zip_copy"} => Ancestors(Dest) \subseteq dirs

\* a file two levels deep is being written, its directory entry comes after it,
\* and nothing existed under the target root
C1_Witness ==
    /\ pc = "zip_copy"
    /\ dirs0 = {}
    /\ Len(entries) = 2
    /\ idx = 1
    /\ entries[1].name = <<"a", "b">>
    /\ entries[2].kind = "Directory"
    /\ entries[2].name = <<"a">>

\* C2 (as stated): after a successful zip extraction into an empty target root,
\* EVERY RegularFile entry's destination holds that entry's content, and no
\* other regular file exists under the target root.
C2_EveryEntryContent ==
    (ZipDone /\ EmptyTargetAtStart) =>
        /\ \A i \in FileEntries :
             DestOf(i) \in DOMAIN files /\ files[DestOf(i)] = entries[i].data
        /\ \A p \in DOMAIN files : \E i \in FileEntries : DestOf(i) = p

\* C2 (amended): after a successful zip extraction into an empty target root,
\* every RegularFile entry's destination exists and holds the content of the
\* last RegularFile entry naming that destination, and no other regular file
\* exists under the target root.
C2_LastEntryContent ==
    (ZipDone /\ EmptyTargetAtStart) =>
        /\ \A i \in FileEntries :
             DestOf(i) \in DOMAIN files /\ files[DestOf(i)] = entries[LastFor(i)].data
        /\ \A p \in DOMAIN files : \E i \in FileEntries : DestOf(i) = p

\* two files at different depths were extracted into an empty target root
C2_Witness ==
    /\ ZipDone
    /\ EmptyTargetAtStart
    /\ Len(entries) = 2
    /\ entries[1].kind = "File" /\ entries[1].name = <<"a", "b">>
    /\ entries[2].kind = "File" /\ entries[2].name = <<"c">>
    /\ entries[1].data # entries[2].data

\* C3: a repeated zip extraction (same arguments, archive with the same entry
\* paths and kinds, started from the tree the previous successful run left)
\* succeeds unless the environment fails an I/O call; a successful run leaves
\* every RegularFile destination with the archive's content for it, whatever
\* was there before; repeating the identical archive leaves the tree as the
\* single run left it; and no zip run removes a directory or removes or alters
\* a pre-existing file that is not the destination of a RegularFile entry.
C3_IdempotentOverwrite ==
    /\ (pc = "done" /\ prev # <<>> /\ ~faulted /\ envRead # "missing") => result = "ok"
    /\ ZipDone =>
         \A i \in FileEntries :
            DestOf(i) \in DOMAIN files /\ files[DestOf(i)] = entries[LastFor(i)].data
    /\ (ZipDone /\ prev # <<>> /\ entries = prev[1]) => (dirs = dirs0 /\ files = files0)
    /\ (pc # "idle" /\ reader \in {"none", "zip"}) =>
         /\ dirs0 \subseteq dirs
         /\ \A p \in DOMAIN files0 :
              (\A i \in FileEntries : DestOf(i) # p) =>
                  (p \in DOMAIN files /\ files[p] = files0[p])

\* a repeated run with changed content has overwritten a file and left another
\* pre-existing file alone
C3_Witness ==
    /\ ZipDone
    /\ prev # <<>>
    /\ entries # prev[1]
    /\ \E p \in DOMAIN files0 : p \in DOMAIN files /\ files[p] # files0[p]
    /\ \E p \in DOMAIN files0 : \A i \in FileEntries : DestOf(i) # p

\* C4: the reader is chosen by the file-name suffix alone, case-sensitively
\* (.zip, then .tar.gz / .tgz, then .tar); exactly that one reader is entered,
\* once, whatever the archive's bytes are; a name with a recognised suffix is
\* never refused by the dispatcher.
C4_SuffixDispatch ==
    /\ (pc \notin {"idle", "resolve", "dispatch"} /\ archive # <<>>
            /\ envRead # "missing") =>
         /\ reader = ExpectedReader(archive[1])
         /\ invoked \in {<<>>, <<reader>>}
         /\ (reader # "none") => (result # "panic")
         /\ (pc = "done" /\ reader # "none") => invoked = <<reader>>
    /\ Len(invoked) <= 1

\* the zip reader ran on a file whose bytes are a tar stream
C4_Witness ==
    /\ pc = "done"
    /\ archive = << <<"a", ".", "z", "i", "p">> >>
    /\ fmt = "tar"
    /\ invoked = <<"zip">>
    /\ result = "err"

\* C5: a call whose archive name has no recognised suffix (or no file name),
\* or that has no target and finds OUT_DIR unset, ends in a panic, and a call
\* that panics has not opened the archive, entered a reader, or changed any
\* directory or file.
C5_HardStopFrame ==
    /\ (pc = "done" /\ (archive = <<>> \/ ExpectedReader(archive[1]) = "none")) =>
         result = "panic"
    /\ (pc # "idle" /\ targetArg = <<>> /\ envRead = "missing") =>
         (pc = "done" /\ result = "panic")
    /\ (pc # "idle" /\ (archive = <<>> \/ ExpectedReader(archive[1]) = "none")) =>
         (~opened /\ invoked = <<>> /\ dirs = dirs0 /\ files = files0)
    /\ result = "panic" =>
         (~opened /\ invoked = <<>> /\ dirs = dirs0 /\ files = files0)

\* a .rar archive was refused while the target root held files
C5_Witness ==
    /\ pc = "done"
    /\ result = "panic"
    /\ archive = << <<"a", ".", "r", "a", "r">> >>
    /\ targetArg # <<>>
    /\ files # <<>>

\* C6: after a successful zip extraction into an empty target root, the
\* destination of an entry that is neither Directory nor RegularFile is a file
\* only if a RegularFile entry names it and a directory only if another entry
\* lies below it; and a zip run never fails while processing such an entry.
C6_OtherEntriesIgnored ==
    /\ (ZipDone /\ EmptyTargetAtStart) =>
         \A i \in 1..Len(entries) :
            entries[i].kind = "Other" =>
              /\ DestOf(i) \in DOMAIN files => \E j \in FileEntries : DestOf(j) = DestOf(i)
              /\ DestOf(i) \in dirs =>
                   \E j \in 1..Len(entries) :
                      /\ entries[j].kind \in {"File", "Directory"}
                      /\ DestOf(i) \in Ancestors(DestOf(j))
    /\ (pc = "done" /\ reader = "zip" /\ result = "err" /\ idx \in 1..Len(entries)) =>
         entries[idx].kind # "Other"

\* an archive holding a symlink entry and a file was extracted into an empty root
C6_Witness ==
    /\ ZipDone
    /\ EmptyTargetAtStart
    /\ Len(entries) = 2
    /\ entries[1].kind = "Other" /\ entries[1].name = <<"c">>
    /\ entries[2].kind = "File" /\ entries[2].name = <<"a", "b">>
    /\ <<"out", "c">> \notin DOMAIN files
    /\ <<"out", "c">> \notin dirs

\* C10: after a successful zip extraction, every ancestor of a Directory
\* entry's destination D exists, and D itself is a directory created by the
\* run only if another entry's destination lies below D; the archive whose
\* only entry is the directory a/b leaves T/a existing and T/a/b absent.
C10_DirectoryEntryParentOnly ==
    ZipDone =>
        /\ \A i \in 1..Len(entries) :
             entries[i].kind = "Directory" =>
               /\ Ancestors(DestOf(i)) \subseteq dirs
               /\ DestOf(i) \in (dirs \ dirs0) =>
                    \E j \in 1..Len(entries) :
                       /\ j # i
                       /\ entries[j].kind \in {"File", "Directory"}
                       /\ DestOf(i) \in Ancestors(DestOf(j))
        /\ (EmptyTargetAtStart /\ Len(entries) = 1 /\ entries[1].kind = "Directory"
                /\ entries[1].name = <<"a", "b">>) =>
             (<<"out", "a">> \in dirs /\ <<"out", "a", "b">> \notin dirs)

\* the archive whose only entry is the directory a/b was extracted into a
\* target root that did not exist
C10_Witness ==
    /\ ZipDone
    /\ dirs0 = {}
    /\ Len(entries) = 1
    /\ entries[1].kind = "Directory"
    /\ entries[1].name = <<"a", "b">>
    /\ dirs = {<<"out">>, <<"out", "a">>}

\* the zip run is inside or past the entry loop
InEntryLoop ==
    /\ reader = "zip"
    /\ pc \in {"zip_entry", "zip_create", "zip_copy", "done"}
    /\ opened
    /\ fmt = "zip"

\* the entry loop stopped with an error at entry idx
ZipFailedAt == InEntryLoop /\ pc = "done" /\ result = "err"

\* the destination the entry at idx writes to, when it is a RegularFile entry
CurrentFileDest ==
    IF idx \in FileEntries THEN {DestOf(idx)} ELSE {}

\* the last RegularFile entry before idx naming the same destination as entry i
LastBeforeIdx(i) ==
    CHOOSE j \in FileEntries :
        /\ j < idx
        /\ DestOf(j) = DestOf(i)
        /\ \A k \in FileEntries : (k < idx /\ DestOf(k) = DestOf(i)) => k <= j

\* C11 (as stated): when the entry loop fails at entry k, EVERY RegularFile
\* entry before k has its destination on disk with that entry's full content.
C11_EarlierFilesAllIntact ==
    ZipFailedAt =>
        \A i \in FileEntries :
            i < idx => (DestOf(i) \in DOMAIN files /\ files[DestOf(i)] = entries[i].data)

\* C11 (amended): entries are processed in index order and the first failure
\* ends the call with an error, nothing being retried or undone: an I/O error
\* in the loop leaves the call finished with an error; at every point of the
\* loop, and when it has failed at entry k = idx, every RegularFile entry
\* before k whose destination is not entry k's own destination has its file
\* on disk holding the content of the last entry before k that names it;
\* entry k's destination, when the loop failed there, is absent, as the
\* entries before k (or the caller) left it, or holds a proper prefix of entry
\* k's content; every other file is as it was when the call started, and every
\* directory created lies above the destination of an entry up to k.
C11_AbortAtFirstFailure ==
    /\ (reader = "zip" /\ faulted) => (pc = "done" /\ result = "err")
    /\ InEntryLoop =>
         /\ idx \in 1..(Len(entries) + 1)
         /\ ZipFailedAt => idx <= Len(entries)
         /\ \A i \in FileEntries :
              (i < idx /\ DestOf(i) \notin CurrentFileDest) =>
                 /\ DestOf(i) \in DOMAIN files
                 /\ files[DestOf(i)] = entries[LastBeforeIdx(i)].data
         /\ \A p \in CurrentFileDest :
              (ZipFailedAt /\ p \in DOMAIN files) =>
                 \/ files[p] \in ProperPrefixesOf(entries[idx].data)
                 \/ \E i \in FileEntries :
                       i < idx /\ DestOf(i) = p /\ files[p] = entries[LastBeforeIdx(i)].data
                 \/ (p \in DOMAIN files0 /\ files[p] = files0[p])
         /\ \A p \in DOMAIN files :
              \/ p \in DOMAIN files0 /\ files[p] = files0[p]
              \/ \E i \in FileEntries : i <= idx /\ DestOf(i) = p
         /\ dirs0 \subseteq dirs
         /\ \A d \in dirs \ dirs0 :
              \E i \in 1..Len(entries) :
                 /\ i <= idx
                 /\ entries[i].kind \in {"File", "Directory"}
                 /\ d \in Ancestors(DestOf(i))

\* the copy of the second entry broke off: the first entry's file is whole, the
\* second entry's file is truncated
C11_Witness ==
    /\ ZipFailedAt
    /\ faulted
    /\ files0 = <<>>
    /\ Len(entries) = 2
    /\ idx = 2
    /\ entries[1].kind = "File" /\ entries[1].name = <<"c">>
    /\ entries[2].kind = "File" /\ entries[2].name = <<"a", "b">>
    /\ entries[2].data = <<1, 2>>
    /\ DOMAIN files = {<<"out", "c">>, <<"out", "a", "b">>}
    /\ files[<<"out", "c">>] = entries[1].data
    /\ files[<<"out", "a", "b">>] = <<1>>

-----------------------------------------------------------------------------
(* Properties of install_dylibs *)

InstallOk == ipc = "done" /\ iresult = "ok"

\* the target platform's dynamic-library extension, as documented
PlatformExtension(env) ==
    IF Contains(env, <<"p", "c", "-", "w", "i", "n", "d", "o", "w", "s">>) THEN <<"d", "l", "l">> ELSE <<"s", "o">>

\* C7 (as stated): with LibName(name) the files copied are exactly the source
\* files named name.ext or libname.ext, ext being dll on a pc-windows TARGET
\* and so otherwise.
C7_LibNameCopiesDottedNames ==
    (InstallOk /\ ifilter # <<>> /\ ifilter[1].kind = "LibName") =>
        LET ext == PlatformExtension(itargetEnv[1])
            name == ifilter[1].str
        IN  icopied = {n \in DOMAIN ifs0[SrcDir] :
                          \/ n = name \o <<".">> \o ext
                          \/ n = <<"l", "i", "b">> \o name \o <<".">> \o ext}

\* the names an Extension or FileName filter selects in the source directory
SelectedBy(filter) ==
    {n \in DOMAIN ifs0[SrcDir] :
        IF filter.kind = "Extension"
        THEN HasSuffix(n, <<".">> \o filter.str)
        ELSE n = filter.str}

\* C8: a successful install_dylibs with an explicit target directory and an
\* Extension or FileName filter has copied exactly the selected source files,
\* each under its own name and with its content; every other file of the
\* target directory is as it was, an initially empty target directory holds
\* exactly the selected names, and the source directory (and every other
\* directory) is unchanged.
C8_ExplicitTargetCopiesSelected ==
    (InstallOk /\ itargetArg # <<>> /\ ifilter # <<>>
        /\ ifilter[1].kind \in {"Extension", "FileName"}) =>
        LET M == SelectedBy(ifilter[1])
            to == itargetArg[1]
        IN  /\ icopied = M
            /\ \A n \in M : n \in DOMAIN ifs[to] /\ ifs[to][n] = ifs0[SrcDir][n]
            /\ \A n \in (DOMAIN ifs[to]) \ M :
                 n \in DOMAIN ifs0[to] /\ ifs[to][n] = ifs0[to][n]
            /\ (ifs0[to] = <<>>) => (DOMAIN ifs[to] = M)
            /\ ifs[SrcDir] = ifs0[SrcDir]
            /\ ifs[ExeDir] = ifs0[ExeDir]

\* Extension("dll") picked S.dll out of a directory that also holds S.so and
\* put it into an empty target directory
C8_Witness ==
    /\ InstallOk
    /\ itargetArg = <<DstDir>>
    /\ ifilter = <<[kind |-> "Extension", str |-> <<"d", "l", "l">>]>>
    /\ DOMAIN ifs0[SrcDir] = {<<"S", ".", "d", "l", "l">>, <<"S", ".", "s", "o">>}
    /\ ifs0[DstDir] = <<>>
    /\ DOMAIN ifs[DstDir] = {<<"S", ".", "d", "l", "l">>}

-----------------------------------------------------------------------------
(* Properties of download_or_find_file *)

\* the last path segment of a url that has one
LastSegment(u) == u.segs[1][Len(u.segs[1])]

\* the call looks for a file that existed when it started
CachedAtStart ==
    /\ dpc # "idle"
    /\ durl.parse = "ok"
    /\ durl.segs # <<>>
    /\ LastSegment(durl) \in DOMAIN dfiles0

\* C9: when a file exists at out_dir joined with the url's last path segment,
\* the call makes no HTTP request and changes no file, and (unless no output
\* directory can be determined) returns Ok with that path, whatever the host
\* and the leading path segments are.
C9_CacheHitIsPure ==
    CachedAtStart =>
        /\ dhttp = 0
        /\ dfiles = dfiles0
        /\ dpc \in {"parse", "out_dir", "done"}
        /\ (dpc = "done" /\ dresult # "panic") =>
             (dresult = "ok" /\ dreturned = <<DownloadDir, LastSegment(durl)>>)

\* a file downloaded earlier is found again through a url with an unreachable
\* host and another leading path
C9_Witness ==
    /\ CachedAtStart
    /\ dpc = "done"
    /\ dresult = "ok"
    /\ durl.host = "down"
    /\ durl.segs = << <<"x", "f">> >>
    /\ dfiles0["f"] = <<1, 2>>

\* the call asks for the url whose download created the file it looks for
SameUrlAsCreator ==
    /\ dpc # "idle"
    /\ dpath \in DOMAIN dmade
    /\ dmade[dpath] = durl

\* C12: over calls for the same url and directory, a call returns Ok(path)
\* only if the file at path holds the complete response body.
C12_OkImpliesCompleteBody ==
    (SameUrlAsCreator /\ dpc = "done" /\ dresult = "ok") =>
        (dpath \in DOMAIN dfiles /\ dfiles[dpath] = Body(durl))

\* the mechanism C12 names: a call that made a request and failed leaves no
\* file at path
FailedDownloadLeavesNoFile ==
    (SameUrlAsCreator /\ dpc = "done" /\ dresult = "err" /\ dhttp > 0) =>
        dpath \notin DOMAIN dfiles

====
